---- MODULE Spec2Model ----
(***************************************************************************)
(* Rumble VPN: the two binaries (rumble-server with the supervisor loop of *)
(* RumbleServer::run, rumble-client with the two pumps of                  *)
(* RumbleClient::relay_packets) and the server-side RumbleConnection.      *)
(*                                                                         *)
(*   Spec      one process: either binary, from main() to process exit     *)
(*   FairSpec  Spec with the scheduling the tokio runtime guarantees       *)
(*   ConnSpec  one RumbleConnection under any sequence of calls            *)
(*   PoolSpec  one AddressPool under any sequence of allocate and release  *)
(*   RelaySpec the inbound relays: a server's connection or a client       *)
(***************************************************************************)
EXTENDS Integers, Sequences, FiniteSets, TLC

\* ------------------------------------------------------------------ bounds
NumTunnels == 2          \* tunnels in ServerConfig.tunnels
MaxFrameLen == 3         \* interface_mtu: the longest frame the TUN device yields
MaxDatagramSize == 2     \* largest value of Connection::max_datagram_size()
MaxFrames == 2           \* frames the outbound pump reads in a run
MaxDatagrams == 2        \* datagrams the inbound pump reads in a run
MaxTasks == 3            \* length of a RumbleConnection's task list
MaxConnData == 2         \* datagrams a connection's inbound tasks read
MaxSends == 1            \* data a connection hands to QUIC
NetworkSize == 8         \* addresses in a tunnel's network (10.8.0.0/29)

\* The tunnel runtime spawns four tasks on start(): accept loop, TUN->peers
\* pump, peers->TUN pump, cleanup sweeper.
TunnelTaskCount == 4

Tunnels == 1..NumTunnels
Data == {1, 2}

VARIABLES
    \* --- the process (src/bin/server.rs, src/bin/client.rs)
    binary,        \* "server" | "client"
    mainPc,        \* "running" | "exited"
    result,        \* what run_server / run_client returned: "none" | "Ok" | "Err"
    logged,        \* error!("A critical error occurred: ...") was executed
    exitCode,      \* -1 while the process runs, then its exit code
    \* --- RumbleServer (src/server.rs)
    srvPc,         \* position in run_server / RumbleServer::new / RumbleServer::run
    srvIdx,        \* the tunnel the current for-loop is at
    active_tunnels,\* tunnels inserted into the DashMap by RumbleServer::new
    tunnelTasks,   \* per tunnel: its task list, TRUE = the task has finished
    startupDone,   \* the first for-loop of run() completed
    errAt,         \* where the error returned by run came from
    visited,       \* history: per tunnel, is_ok() when visited in this pass
    passLog,       \* history: stop()/start() calls made in this pass
    \* --- RumbleClient (src/client.rs)
    cliPc,         \* position in run_client / RumbleClient::run / relay_packets
    assigned_address, \* address returned by authenticate(), 0 = none
    tunAddress,    \* address the TUN device was set up with, 0 = no device
    maxDatagram,   \* the connection's current max datagram size, 0 = None
    outPc,         \* outbound pump: "idle" | "query" | "read" | "err"
    quinn_mtu,     \* outbound pump's local: the size it queried
    framesRead,    \* frames read from the TUN device so far
    lastFrame,     \* history: the last frame read: length, queried size,
                   \* the connection's max size when it was sent, outcome
    sent,          \* frames handed to Connection::send_datagram, in order
    inPc,          \* inbound pump: "idle" | "read" | "write" | "err"
    inData,        \* inbound pump's local: the datagram read
    readLog,       \* history: datagrams read from the connection, in order
    tunWritten,    \* datagrams written to the TUN device, in order
    \* --- RumbleConnection (src/server/connection.rs)
    tasks,         \* the Vec of JoinHandles: per task its position and locals
    authState,     \* AuthServer's state (behind the RwLock)
    lockWriter,    \* index of the task holding the write lock, 0 = none
    queueOpen,     \* the tunnel's receiver of tun_queue is alive
    tun_queue,     \* data pushed to the tunnel's inbound queue, in order
    connRead,      \* history: datagrams read from the peer, in order
    lastPush,      \* history: what the task of the last push had observed
    quicHanded,    \* data handed to Connection::send_datagram, in order
    sendPending,   \* data of the send_datagram call in progress, 0 = none
    sendAtCall,    \* history: AuthServer's state when that call was issued
    lastSend,      \* history: the last completed send_datagram call
    lastStart,     \* history: the last start() call
    \* --- AddressPool (server/address_pool.rs)
    leased,        \* the set of leased host addresses
    lastOp         \* history: the last allocate/release call

mainVars == <<binary, mainPc, result, logged, exitCode>>
srvVars == <<srvPc, srvIdx, active_tunnels, tunnelTasks, startupDone, errAt,
             visited, passLog>>
outVars == <<outPc, quinn_mtu, framesRead, lastFrame, sent>>
inVars == <<inPc, inData, readLog, tunWritten>>
cliVars == <<cliPc, assigned_address, tunAddress, maxDatagram, outVars, inVars>>
procVars == <<mainVars, srvVars, cliVars>>

connVars == <<tasks, authState, lockWriter, queueOpen, tun_queue, connRead,
              lastPush, quicHanded, sendPending, sendAtCall, lastSend, lastStart>>

poolVars == <<leased, lastOp>>

vars == <<procVars, connVars, poolVars>>

\* ------------------------------------------------------------ task lists

\* is_ok(): the task list is not empty and no task in it has finished.
\* `finished` is the list of JoinHandle::is_finished() values.
IsOk_NoEmptyCheck(finished) ==
    \A i \in 1..Len(finished) : ~finished[i]

IsOk(finished) ==
    Len(finished) # 0 /\ \A i \in 1..Len(finished) : ~finished[i]

\* ------------------------------------------------------------ the tunnel
\* RumbleTunnel (server/tunnel.rs): start / stop / is_ok.

TunnelIsOk(t) == IsOk(tunnelTasks[t])

\* start(): fails if already running, or when the environment refuses a
\* resource (envOk = FALSE); otherwise spawns the tunnel's tasks.
TunnelStartResult(ts, envOk) ==
    IF IsOk(ts) THEN "Err" ELSE IF envOk THEN "Ok" ELSE "Err"

TunnelStartTasks(ts, envOk) ==
    IF TunnelStartResult(ts, envOk) = "Ok"
    THEN ts \o [i \in 1..TunnelTaskCount |-> FALSE]
    ELSE ts

\* stop(): joins or aborts every task and empties the list; returns Ok.
TunnelStopResult(ts) == "Ok"

TunnelStopTasks(ts) == <<>>

\* ------------------------------------------------------------ server

ServerReturn(where) ==
    /\ srvPc' = "returned"
    /\ errAt' = where
    /\ result' = "Err"

\* run_server: ServerConfig::from_path(...)?
ServerLoadConfig ==
    /\ binary = "server" /\ mainPc = "running" /\ srvPc = "config"
    /\ \E ok \in BOOLEAN :
        IF ok
        THEN /\ srvPc' = "new"
             /\ UNCHANGED <<errAt, result>>
        ELSE ServerReturn("config")
    /\ UNCHANGED <<binary, mainPc, logged, exitCode, srvIdx, active_tunnels,
                   tunnelTasks, startupDone, visited, passLog, cliVars, connVars, poolVars>>

ServerNew_StartEarly ==
    /\ binary = "server" /\ mainPc = "running" /\ srvPc = "new"
    /\ \E ok \in BOOLEAN :
        IF ok
        THEN /\ active_tunnels' = active_tunnels \cup {srvIdx}
             /\ srvPc' = "startup" /\ srvIdx' = 1
             /\ UNCHANGED <<errAt, result>>
        ELSE /\ ServerReturn("new")
             /\ UNCHANGED <<active_tunnels, srvIdx>>
    /\ UNCHANGED <<binary, mainPc, logged, exitCode, tunnelTasks, startupDone,
                   visited, passLog, cliVars, connVars, poolVars>>

\* RumbleServer::new: one iteration of the loop over config.tunnels.
ServerNew ==
    /\ binary = "server" /\ mainPc = "running" /\ srvPc = "new"
    /\ \E ok \in BOOLEAN :
        IF ok
        THEN /\ active_tunnels' = active_tunnels \cup {srvIdx}
             /\ IF srvIdx = NumTunnels
                THEN srvPc' = "startup" /\ srvIdx' = 1
                ELSE srvPc' = "new" /\ srvIdx' = srvIdx + 1
             /\ UNCHANGED <<errAt, result>>
        ELSE /\ ServerReturn("new")
             /\ UNCHANGED <<active_tunnels, srvIdx>>
    /\ UNCHANGED <<binary, mainPc, logged, exitCode, tunnelTasks, startupDone,
                   visited, passLog, cliVars, connVars, poolVars>>

\* RumbleServer::run, first loop: tunnel.start().await? for each tunnel.
RunStartup ==
    /\ binary = "server" /\ mainPc = "running" /\ srvPc = "startup"
    /\ \E envOk \in BOOLEAN :
        /\ tunnelTasks' = [tunnelTasks EXCEPT
                ![srvIdx] = TunnelStartTasks(tunnelTasks[srvIdx], envOk)]
        /\ IF TunnelStartResult(tunnelTasks[srvIdx], envOk) = "Ok"
           THEN /\ IF srvIdx = NumTunnels
                   THEN srvPc' = "visit" /\ srvIdx' = 1 /\ startupDone' = TRUE
                   ELSE srvPc' = "startup" /\ srvIdx' = srvIdx + 1
                                           /\ startupDone' = startupDone
                /\ UNCHANGED <<errAt, result>>
           ELSE /\ ServerReturn("startup")
                /\ UNCHANGED <<srvIdx, startupDone>>
    /\ UNCHANGED <<binary, mainPc, logged, exitCode, active_tunnels, visited,
                   passLog, cliVars, connVars, poolVars>>

\* The supervisor `for` moves to the next entry, or to sleep(CLEANUP_INTERVAL).
Advance ==
    IF srvIdx = NumTunnels
    THEN srvPc' = "sleep" /\ srvIdx' = srvIdx
    ELSE srvPc' = "visit" /\ srvIdx' = srvIdx + 1

NeedsRestart_Always(t) == TRUE

\* Whether the supervisor restarts the tunnel it visits.
NeedsRestart(t) == ~TunnelIsOk(t)

\* RumbleServer::run, supervisor loop: `if tunnel.is_ok() { continue; }`.
Visit ==
    /\ binary = "server" /\ mainPc = "running" /\ srvPc = "visit"
    /\ visited' = [visited EXCEPT
            ![srvIdx] = IF TunnelIsOk(srvIdx) THEN "ok" ELSE "notok"]
    /\ IF NeedsRestart(srvIdx)
       THEN srvPc' = "stop" /\ srvIdx' = srvIdx
       ELSE Advance
    /\ UNCHANGED <<mainVars, active_tunnels, tunnelTasks, startupDone, errAt,
                   passLog, cliVars, connVars, poolVars>>

\* Where the supervisor goes after stop() returned Ok.
AfterStop_Skip == "visit"

AfterStop == "start"

\* RumbleServer::run, supervisor loop: `tunnel.stop().await?`.
StopTunnel ==
    /\ binary = "server" /\ mainPc = "running" /\ srvPc = "stop"
    /\ passLog' = Append(passLog, <<"stop", srvIdx>>)
    /\ tunnelTasks' = [tunnelTasks EXCEPT
            ![srvIdx] = TunnelStopTasks(tunnelTasks[srvIdx])]
    /\ IF TunnelStopResult(tunnelTasks[srvIdx]) = "Ok"
       THEN /\ IF AfterStop = "start"
               THEN srvPc' = "start" /\ srvIdx' = srvIdx
               ELSE Advance
            /\ UNCHANGED <<errAt, result>>
       ELSE /\ ServerReturn("restart")
            /\ UNCHANGED srvIdx
    /\ UNCHANGED <<binary, mainPc, logged, exitCode, active_tunnels,
                   startupDone, visited, cliVars, connVars, poolVars>>

\* RumbleServer::run, supervisor loop: `tunnel.start().await?`.
StartTunnel ==
    /\ binary = "server" /\ mainPc = "running" /\ srvPc = "start"
    /\ passLog' = Append(passLog, <<"start", srvIdx>>)
    /\ \E envOk \in BOOLEAN :
        /\ tunnelTasks' = [tunnelTasks EXCEPT
                ![srvIdx] = TunnelStartTasks(tunnelTasks[srvIdx], envOk)]
        /\ IF TunnelStartResult(tunnelTasks[srvIdx], envOk) = "Ok"
           THEN /\ Advance
                /\ UNCHANGED <<errAt, result>>
           ELSE /\ ServerReturn("restart")
                /\ UNCHANGED srvIdx
    /\ UNCHANGED <<binary, mainPc, logged, exitCode, active_tunnels,
                   startupDone, visited, cliVars, connVars, poolVars>>

\* RumbleServer::run, supervisor loop: sleep(CLEANUP_INTERVAL), next pass.
Sleep ==
    /\ binary = "server" /\ mainPc = "running" /\ srvPc = "sleep"
    /\ srvPc' = "visit"
    /\ srvIdx' = 1
    /\ visited' = [t \in Tunnels |-> "no"]
    /\ passLog' = <<>>
    /\ UNCHANGED <<mainVars, active_tunnels, tunnelTasks, startupDone, errAt,
                   cliVars, connVars, poolVars>>

\* One task of a started tunnel ends (an I/O error, a panic, a closed queue).
TunnelTaskFinish ==
    /\ binary = "server" /\ mainPc = "running"
    /\ \E t \in Tunnels : \E k \in 1..Len(tunnelTasks[t]) :
        /\ ~tunnelTasks[t][k]
        /\ tunnelTasks' = [tunnelTasks EXCEPT ![t][k] = TRUE]
    /\ UNCHANGED <<mainVars, srvPc, srvIdx, active_tunnels, startupDone, errAt,
                   visited, passLog, cliVars, connVars, poolVars>>

\* ------------------------------------------------------------ client

ClientReturn ==
    /\ cliPc' = "returned"
    /\ result' = "Err"

\* A step of run_client / RumbleClient::run that either succeeds and moves
\* on to `next`, or fails and makes run return the error (`?`).
ClientStep(at, next) ==
    /\ binary = "client" /\ mainPc = "running" /\ cliPc = at
    /\ \E ok \in BOOLEAN :
        IF ok
        THEN cliPc' = next /\ UNCHANGED result
        ELSE ClientReturn

\* run_client: ClientConfig::from_path(...)?
ClientLoadConfig ==
    /\ ClientStep("config", "connect")
    /\ UNCHANGED <<binary, mainPc, logged, exitCode, srvVars, assigned_address,
                   tunAddress, maxDatagram, outVars, inVars,
                   connVars, poolVars>>

\* RumbleClient::connect_to_server: the connection is established with some
\* max datagram size, None (0) when the peer does not support datagrams.
ConnectToServer ==
    /\ ClientStep("connect", "auth_new")
    /\ \E m \in 0..MaxDatagramSize :
        maxDatagram' = IF cliPc' = "auth_new" THEN m ELSE maxDatagram
    /\ UNCHANGED <<binary, mainPc, logged, exitCode, srvVars, assigned_address,
                   tunAddress, outVars, inVars,
                   connVars, poolVars>>

\* AuthClient::new(&connection, ...).await?
AuthClientNew ==
    /\ ClientStep("auth_new", "authenticate")
    /\ UNCHANGED <<binary, mainPc, logged, exitCode, srvVars, assigned_address,
                   tunAddress, maxDatagram, outVars, inVars,
                   connVars, poolVars>>

\* auth_client.authenticate().await?: Accepted yields the address.
Authenticate ==
    /\ ClientStep("authenticate", "set_up_interface")
    /\ \E a \in Data :
        assigned_address' = IF cliPc' = "set_up_interface" THEN a
                            ELSE assigned_address
    /\ UNCHANGED <<binary, mainPc, logged, exitCode, srvVars, tunAddress,
                   maxDatagram, outVars, inVars,
                   connVars, poolVars>>

SetUpInterface_Fixed ==
    /\ ClientStep("set_up_interface", "relay")
    /\ tunAddress' = IF cliPc' = "relay" THEN 1 ELSE tunAddress
    /\ UNCHANGED <<binary, mainPc, logged, exitCode, srvVars, assigned_address,
                   maxDatagram, outVars, inVars,
                   connVars, poolVars>>

\* set_up_interface(assigned_address, mtu)?
SetUpInterface ==
    /\ ClientStep("set_up_interface", "relay")
    /\ tunAddress' = IF cliPc' = "relay" THEN assigned_address ELSE tunAddress
    /\ UNCHANGED <<binary, mainPc, logged, exitCode, srvVars, assigned_address,
                   maxDatagram, outVars, inVars,
                   connVars, poolVars>>

\* relay_packets: both pumps are spawned, then try_join! awaits the handles.
RelaySpawn ==
    /\ binary = "client" /\ mainPc = "running" /\ cliPc = "relay"
    /\ cliPc' = "join"
    /\ outPc' = "query"
    /\ inPc' = "read"
    /\ UNCHANGED <<mainVars, srvVars, assigned_address, tunAddress, maxDatagram,
                   quinn_mtu, framesRead, lastFrame, sent, inData, readLog,
                   tunWritten,
                   connVars, poolVars>>

\* try_join! over the two JoinHandles: a task that returned Err(e) makes its
\* handle yield Ok(Err(e)), which try_join! takes as success and keeps
\* waiting for the other handle; it completes when both tasks have ended.
TryJoinReady(o, i) == o = "err" /\ i = "err"

\* relay_packets: try_join!(...)? ; inbound_task?; outbound_task?
RelayJoin ==
    /\ binary = "client" /\ mainPc = "running" /\ cliPc = "join"
    /\ TryJoinReady(outPc, inPc)
    /\ ClientReturn
    /\ UNCHANGED <<binary, mainPc, logged, exitCode, srvVars, assigned_address,
                   tunAddress, maxDatagram, outVars, inVars,
                   connVars, poolVars>>

PumpsLive == binary = "client" /\ mainPc = "running" /\ cliPc = "join"

\* process_outbound_traffic: connection.max_datagram_size().ok_or_else(..)?
OutQuery ==
    /\ PumpsLive /\ outPc = "query"
    /\ IF maxDatagram = 0
       THEN outPc' = "err" /\ UNCHANGED quinn_mtu
       ELSE outPc' = "read" /\ quinn_mtu' = maxDatagram
    /\ UNCHANGED <<mainVars, srvVars, cliPc, assigned_address, tunAddress,
                   maxDatagram, framesRead, lastFrame, sent, inVars,
                   connVars, poolVars>>

\* process_outbound_traffic: `if data.len() > quinn_mtu`.
ExceedsMtu_Ge(len, mtu) == len >= mtu

ExceedsMtu(len, mtu) == len > mtu

\* quinn's Connection::send_datagram: TooLarge when the datagram exceeds the
\* connection's current max size, UnsupportedByPeer when there is none,
\* ConnectionLost when the environment says so.
QuicSendResult(len, curMax, envOk) ==
    IF curMax = 0 \/ len > curMax \/ ~envOk THEN "Err" ELSE "Ok"

\* process_outbound_traffic: read_from_interface returned a frame of `len`
\* bytes; the rest of the loop body runs without suspending.
OutFrame ==
    /\ PumpsLive /\ outPc = "read" /\ framesRead < MaxFrames
    /\ \E len \in 1..MaxFrameLen, envOk \in BOOLEAN :
        /\ framesRead' = framesRead + 1
        /\ IF ExceedsMtu(len, quinn_mtu)
           THEN /\ outPc' = "query"
                /\ sent' = sent
           ELSE /\ sent' = Append(sent, len)
                /\ outPc' = IF QuicSendResult(len, maxDatagram, envOk) = "Ok"
                            THEN "query" ELSE "err"
        /\ lastFrame' = [len |-> len, mtu |-> quinn_mtu,
                         cur |-> IF sent' # sent THEN maxDatagram ELSE 0,
                         handed |-> Len(sent') - Len(sent), next |-> outPc',
                         after |-> IF lastFrame.len > lastFrame.mtu
                                   THEN "drop" ELSE "none"]
    /\ UNCHANGED <<mainVars, srvVars, cliPc, assigned_address, tunAddress,
                   maxDatagram, quinn_mtu, inVars,
                   connVars, poolVars>>

\* process_outbound_traffic: read_from_interface(...).await? failed.
OutReadError ==
    /\ PumpsLive /\ outPc = "read"
    /\ outPc' = "err"
    /\ UNCHANGED <<mainVars, srvVars, cliPc, assigned_address, tunAddress,
                   maxDatagram, quinn_mtu, framesRead, lastFrame, sent, inVars,
                   connVars, poolVars>>

\* The connection's max datagram size changes (path MTU discovery).
MaxDatagramChange ==
    /\ PumpsLive /\ maxDatagram # 0
    /\ \E m \in 1..MaxDatagramSize :
        m # maxDatagram /\ maxDatagram' = m
    /\ UNCHANGED <<mainVars, srvVars, cliPc, assigned_address, tunAddress,
                   outVars, inVars,
                   connVars, poolVars>>

\* process_inbound_traffic: connection.read_datagram().await? returned data.
InRead ==
    /\ PumpsLive /\ inPc = "read" /\ Len(readLog) < MaxDatagrams
    /\ \E d \in Data :
        /\ inData' = d
        /\ readLog' = Append(readLog, d)
    /\ inPc' = "write"
    /\ UNCHANGED <<mainVars, srvVars, cliPc, assigned_address, tunAddress,
                   maxDatagram, outVars, tunWritten,
                   connVars, poolVars>>

\* process_inbound_traffic: connection.read_datagram().await? failed.
InReadError ==
    /\ PumpsLive /\ inPc = "read"
    /\ inPc' = "err"
    /\ UNCHANGED <<mainVars, srvVars, cliPc, assigned_address, tunAddress,
                   maxDatagram, outVars, inData, readLog, tunWritten,
                   connVars, poolVars>>

\* process_inbound_traffic: write_to_interface(&mut write_interface, data).await?
InWrite ==
    /\ PumpsLive /\ inPc = "write"
    /\ \E ok \in BOOLEAN :
        IF ok
        THEN tunWritten' = Append(tunWritten, inData) /\ inPc' = "read"
        ELSE tunWritten' = tunWritten /\ inPc' = "err"
    /\ UNCHANGED <<mainVars, srvVars, cliPc, assigned_address, tunAddress,
                   maxDatagram, outVars, inData, readLog,
                   connVars, poolVars>>

ClientNext ==
    \/ ClientLoadConfig
    \/ ConnectToServer
    \/ AuthClientNew
    \/ Authenticate
    \/ SetUpInterface
    \/ RelaySpawn
    \/ RelayJoin
    \/ OutQuery
    \/ OutFrame
    \/ OutReadError
    \/ MaxDatagramChange
    \/ InRead
    \/ InReadError
    \/ InWrite

\* ------------------------------------------------------------ main

\* The exit code of `async fn main()` returning, given run's result.
ExitCode(r) == 0

\* main: match run_*(args).await { Ok(_) => {}, Err(e) => error!(...) }
MainExit ==
    /\ mainPc = "running" /\ result # "none"
    /\ logged' = (result = "Err")
    /\ exitCode' = ExitCode(result)
    /\ mainPc' = "exited"
    /\ UNCHANGED <<binary, result, srvVars, cliVars, connVars, poolVars>>

ServerNext ==
    \/ ServerLoadConfig
    \/ ServerNew
    \/ RunStartup
    \/ Visit
    \/ StopTunnel
    \/ StartTunnel
    \/ Sleep
    \/ TunnelTaskFinish

\* ------------------------------------------------------------ AuthServer
\* AuthServer (auth/server.rs): the per-connection authentication state
\* machine, Unauthenticated -> Authenticating -> Authenticated | Failed.

AuthStates == {"Unauthenticated", "Authenticating", "Authenticated", "Failed"}
AuthOutcomes == {"accept", "reject", "timeout"}

\* handle_authentication begins: the auth stream is awaited, the timer set.
AuthEnter(s) == IF s = "Unauthenticated" THEN "Authenticating" ELSE s

\* handle_authentication ends: Authenticated and Failed are terminal.
AuthNextState(s, outcome) ==
    IF s \in {"Authenticated", "Failed"} THEN s
    ELSE IF outcome = "accept" THEN "Authenticated" ELSE "Failed"

\* What handle_authentication returns.
AuthResult(s, outcome) ==
    IF AuthNextState(s, outcome) = "Authenticated" /\ outcome = "accept"
    THEN "Ok" ELSE "Err"

\* ------------------------------------------------------------ connection

\* A task: its position, whether its handle_authentication returned Ok, and
\* the state its last check at the top of the loop read (until it pushes).
NewTask == [pc |-> "auth_lock", authOk |-> FALSE, checked |-> "none"]

\* A task that returned its error: the JoinHandle only tells it has finished.
Ended == [pc |-> "done", authOk |-> FALSE, checked |-> "none"]

\* JoinHandle::is_finished()
IsFinished(task) == task.pc = "done"

Finished(ts) == [i \in 1..Len(ts) |-> IsFinished(ts[i])]

\* RumbleConnection::is_ok
ConnIsOk == IsOk(Finished(tasks))

\* A task list that holds at least one task and no task that has ended.
Running(ts) == Len(ts) >= 1 /\ \A i \in 1..Len(ts) : ts[i].pc # "done"

\* RumbleConnection::start: the result, and the task list it leaves.
StartResult(ts) == IF IsOk(Finished(ts)) THEN "Err" ELSE "Ok"

StartTasks_AlwaysSpawn(ts) == Append(ts, NewTask)

StartTasks_DropFinished(ts) ==
    IF IsOk(Finished(ts)) THEN ts
    ELSE Append(SelectSeq(ts, LAMBDA t : ~IsFinished(t)), NewTask)

StartTasks(ts) == IF IsOk(Finished(ts)) THEN ts ELSE Append(ts, NewTask)

ConnStart_NewAuthServer ==
    /\ sendPending = 0
    /\ Len(StartTasks(tasks)) <= MaxTasks
    /\ tasks' = StartTasks(tasks)
    /\ authState' = "Unauthenticated"
    /\ lastStart' = [running |-> Running(tasks),
                     res |-> StartResult(tasks),
                     kept |-> SubSeq(tasks', 1, Len(tasks)) = tasks,
                     spawned |-> SubSeq(tasks', Len(tasks) + 1, Len(tasks'))]
    /\ UNCHANGED <<procVars, poolVars, lockWriter, queueOpen, tun_queue,
                   connRead, lastPush, quicHanded, sendPending, sendAtCall,
                   lastSend>>

\* RumbleConnection::start. It takes &mut self, so no send_datagram call
\* (&self) is in progress.
ConnStart ==
    /\ sendPending = 0
    /\ Len(StartTasks(tasks)) <= MaxTasks
    /\ tasks' = StartTasks(tasks)
    /\ lastStart' = [running |-> Running(tasks),
                     res |-> StartResult(tasks),
                     kept |-> SubSeq(tasks', 1, Len(tasks)) = tasks,
                     spawned |-> SubSeq(tasks', Len(tasks) + 1, Len(tasks'))]
    /\ UNCHANGED <<procVars, poolVars, authState, lockWriter, queueOpen, tun_queue,
                   connRead, lastPush, quicHanded, sendPending, sendAtCall,
                   lastSend>>

ConnStop_PopOne ==
    /\ sendPending = 0
    /\ tasks' = SubSeq(tasks, 1, Len(tasks) - 1)
    /\ lockWriter' = 0
    /\ UNCHANGED <<procVars, poolVars, authState, queueOpen, tun_queue, connRead,
                   lastPush, quicHanded, sendPending, sendAtCall, lastSend,
                   lastStart>>

\* RumbleConnection::stop: every task is popped and joined, or aborted when
\* it does not end within the timeout; an aborted task drops the write lock
\* it holds. Returns Ok.
ConnStop ==
    /\ sendPending = 0
    /\ tasks' = <<>>
    /\ lockWriter' = 0
    /\ UNCHANGED <<procVars, poolVars, authState, queueOpen, tun_queue, connRead,
                   lastPush, quicHanded, sendPending, sendAtCall, lastSend,
                   lastStart>>

\* handle_authentication: auth_server.write().await is granted.
AuthAcquire ==
    /\ lockWriter = 0
    /\ \E i \in 1..Len(tasks) :
        /\ tasks[i].pc = "auth_lock"
        /\ tasks' = [tasks EXCEPT ![i].pc = "auth"]
        /\ lockWriter' = i
    /\ authState' = AuthEnter(authState)
    /\ UNCHANGED <<procVars, poolVars, queueOpen, tun_queue, connRead, lastPush,
                   quicHanded, sendPending, sendAtCall, lastSend, lastStart>>

\* process_incoming_data: `Self::handle_authentication(&auth_server).await?`
AfterAuth_Ignore(res) == "check"

AfterAuth(res) == IF res = "Ok" THEN "check" ELSE "done"

\* handle_authentication returns and the write guard is dropped.
AuthFinish ==
    /\ lockWriter # 0
    /\ \E outcome \in AuthOutcomes :
        LET res == AuthResult(authState, outcome) IN
        /\ authState' = AuthNextState(authState, outcome)
        /\ tasks' = [tasks EXCEPT
                ![lockWriter] = IF AfterAuth(res) = "done" THEN Ended
                                ELSE [@ EXCEPT !.pc = AfterAuth(res),
                                               !.authOk = (res = "Ok")]]
    /\ lockWriter' = 0
    /\ UNCHANGED <<procVars, poolVars, queueOpen, tun_queue, connRead, lastPush,
                   quicHanded, sendPending, sendAtCall, lastSend, lastStart>>

\* process_incoming_data, top of the loop:
\* `match ...get_state().await { AuthState::Authenticated(_) => (), _ => return Err }`
LoopCheckPasses(s) == s = "Authenticated"

\* process_incoming_data, top of the loop: the state is read under the
\* read lock, which is granted only while no writer holds the lock.
TaskCheck ==
    /\ lockWriter = 0
    /\ \E i \in 1..Len(tasks) :
        /\ tasks[i].pc = "check"
        /\ tasks' = [tasks EXCEPT
                ![i] = IF LoopCheckPasses(authState)
                       THEN [@ EXCEPT !.pc = "read", !.checked = authState]
                       ELSE Ended]
    /\ UNCHANGED <<procVars, poolVars, authState, lockWriter, queueOpen, tun_queue,
                   connRead, lastPush, quicHanded, sendPending, sendAtCall,
                   lastSend, lastStart>>

TaskRead_Continue ==
    /\ Len(connRead) < MaxConnData
    /\ \E i \in 1..Len(tasks), d \in Data :
        /\ tasks[i].pc = "read"
        /\ connRead' = Append(connRead, d)
        /\ IF queueOpen
           THEN /\ tun_queue' = Append(tun_queue, d)
                /\ lastPush' = [checked |-> tasks[i].checked,
                                authOk |-> tasks[i].authOk]
                /\ tasks' = [tasks EXCEPT ![i].pc = "check",
                                          ![i].checked = "none"]
           ELSE /\ tasks' = [tasks EXCEPT ![i].pc = "check",
                                          ![i].checked = "none"]
                /\ UNCHANGED <<tun_queue, lastPush>>
    /\ UNCHANGED <<procVars, poolVars, authState, lockWriter, queueOpen, quicHanded,
                   sendPending, sendAtCall, lastSend, lastStart>>

\* process_incoming_data: read_datagram().await? returned data, which is
\* sent into tun_queue; the send fails when the receiver is gone.
TaskRead ==
    /\ Len(connRead) < MaxConnData
    /\ \E i \in 1..Len(tasks), d \in Data :
        /\ tasks[i].pc = "read"
        /\ connRead' = Append(connRead, d)
        /\ IF queueOpen
           THEN /\ tun_queue' = Append(tun_queue, d)
                /\ lastPush' = [checked |-> tasks[i].checked,
                                authOk |-> tasks[i].authOk]
                /\ tasks' = [tasks EXCEPT ![i].pc = "check",
                                          ![i].checked = "none"]
           ELSE /\ tasks' = [tasks EXCEPT ![i] = Ended]
                /\ UNCHANGED <<tun_queue, lastPush>>
    /\ UNCHANGED <<procVars, poolVars, authState, lockWriter, queueOpen, quicHanded,
                   sendPending, sendAtCall, lastSend, lastStart>>

\* process_incoming_data: read_datagram().await? failed (peer disconnect).
TaskReadError ==
    /\ \E i \in 1..Len(tasks) :
        /\ tasks[i].pc = "read"
        /\ tasks' = [tasks EXCEPT ![i] = Ended]
    /\ UNCHANGED <<procVars, poolVars, authState, lockWriter, queueOpen, tun_queue,
                   connRead, lastPush, quicHanded, sendPending, sendAtCall,
                   lastSend, lastStart>>

\* The tunnel drops the receiver of the inbound queue.
QueueClose ==
    /\ queueOpen
    /\ queueOpen' = FALSE
    /\ UNCHANGED <<procVars, poolVars, tasks, authState, lockWriter, tun_queue, connRead,
                   lastPush, quicHanded, sendPending, sendAtCall, lastSend,
                   lastStart>>

\* send_datagram:
\* `match ...get_state().await { AuthState::Authenticated(_) => (), _ => return Err }`
SendAllowed_NotFailed(s) == s # "Failed"

SendAllowed(s) == s = "Authenticated"

\* RumbleConnection::send_datagram is called and awaits the read lock.
SendIssue ==
    /\ sendPending = 0
    /\ Len(quicHanded) < MaxSends
    /\ \E d \in Data : sendPending' = d
    /\ sendAtCall' = IF lockWriter # 0 THEN "in_auth" ELSE authState
    /\ UNCHANGED <<procVars, poolVars, tasks, authState, lockWriter, queueOpen, tun_queue,
                   connRead, lastPush, quicHanded, lastSend, lastStart>>

SendRun_NoLock ==
    /\ sendPending # 0
    /\ \E envOk \in BOOLEAN :
        LET handed == SendAllowed(authState)
            res == IF ~handed THEN "NotAuthenticated"
                   ELSE IF envOk THEN "Ok" ELSE "SendError"
        IN  /\ quicHanded' = IF handed THEN Append(quicHanded, sendPending)
                             ELSE quicHanded
            /\ lastSend' = [atCall |-> sendAtCall, atCheck |-> authState,
                            res |-> res,
                            handed |-> quicHanded' # quicHanded]
    /\ sendPending' = 0
    /\ sendAtCall' = "none"
    /\ UNCHANGED <<procVars, poolVars, tasks, authState, lockWriter, queueOpen, tun_queue,
                   connRead, lastPush, lastStart>>

\* RumbleConnection::send_datagram: the read lock is granted, the state is
\* matched, and the data is handed to the QUIC connection or not.
SendRun ==
    /\ sendPending # 0
    /\ lockWriter = 0
    /\ \E envOk \in BOOLEAN :
        LET handed == SendAllowed(authState)
            res == IF ~handed THEN "NotAuthenticated"
                   ELSE IF envOk THEN "Ok" ELSE "SendError"
        IN  /\ quicHanded' = IF handed THEN Append(quicHanded, sendPending)
                             ELSE quicHanded
            /\ lastSend' = [atCall |-> sendAtCall, atCheck |-> authState,
                            res |-> res,
                            handed |-> quicHanded' # quicHanded]
    /\ sendPending' = 0
    /\ sendAtCall' = "none"
    /\ UNCHANGED <<procVars, poolVars, tasks, authState, lockWriter, queueOpen, tun_queue,
                   connRead, lastPush, lastStart>>

ConnNext ==
    \/ ConnStart
    \/ ConnStop
    \/ AuthAcquire
    \/ AuthFinish
    \/ TaskCheck
    \/ TaskRead
    \/ TaskReadError
    \/ QueueClose
    \/ SendIssue
    \/ SendRun

NoSend == [atCall |-> "none", atCheck |-> "none", res |-> "none",
           handed |-> FALSE]
NoStart == [running |-> FALSE, res |-> "none", kept |-> TRUE, spawned |-> <<>>]
NoPush == [checked |-> "none", authOk |-> FALSE]

\* RumbleConnection::new
ConnInit ==
    /\ tasks = <<>>
    /\ authState = "Unauthenticated"
    /\ lockWriter = 0
    /\ queueOpen = TRUE
    /\ tun_queue = <<>>
    /\ connRead = <<>>
    /\ lastPush = NoPush
    /\ quicHanded = <<>>
    /\ sendPending = 0
    /\ sendAtCall = "none"
    /\ lastSend = NoSend
    /\ lastStart = NoStart

NoFrame == [len |-> 0, mtu |-> 0, cur |-> 0, handed |-> 0, next |-> "none",
            after |-> "none"]

ProcInit ==
    /\ binary \in {"server", "client"}
    /\ mainPc = "running"
    /\ result = "none"
    /\ logged = FALSE
    /\ exitCode = -1
    /\ srvPc = "config"
    /\ srvIdx = 1
    /\ active_tunnels = {}
    /\ tunnelTasks = [t \in Tunnels |-> <<>>]
    /\ startupDone = FALSE
    /\ errAt = "none"
    /\ visited = [t \in Tunnels |-> "no"]
    /\ passLog = <<>>
    /\ cliPc = "config"
    /\ assigned_address = 0
    /\ tunAddress = 0
    /\ maxDatagram = 0
    /\ outPc = "idle"
    /\ quinn_mtu = 0
    /\ framesRead = 0
    /\ lastFrame = NoFrame
    /\ sent = <<>>
    /\ inPc = "idle"
    /\ inData = 0
    /\ readLog = <<>>
    /\ tunWritten = <<>>

\* ------------------------------------------------------------ AddressPool
\* AddressPool (server/address_pool.rs): allocate / release over the
\* addresses of one network, numbered by their offset in the network.

Addresses == 0..(NetworkSize - 1)
NetworkAddress == 0
BroadcastAddress == NetworkSize - 1
\* The first usable host, leased at construction for the TUN device.
GatewayAddress == 1
PoolExhausted == -1

\* allocate(): walk the network from `a` upwards, skipping the network,
\* broadcast and gateway addresses and every leased one.
RECURSIVE ScanFrom_Down(_, _)
ScanFrom_Down(a, ls) ==
    IF a < 0 THEN PoolExhausted
    ELSE IF a \notin {NetworkAddress, BroadcastAddress, GatewayAddress}
            /\ a \notin ls
         THEN a
         ELSE ScanFrom_Down(a - 1, ls)

RECURSIVE ScanFrom(_, _)
ScanFrom(a, ls) ==
    IF a > NetworkSize - 1 THEN PoolExhausted
    ELSE IF a \notin {NetworkAddress, BroadcastAddress, GatewayAddress}
            /\ a \notin ls
         THEN a
         ELSE ScanFrom(a + 1, ls)

AllocateResult_Highest(ls) == ScanFrom_Down(NetworkSize - 1, ls)

AllocateResult(ls) == ScanFrom(0, ls)

\* allocate() -> Lease | PoolExhausted
PoolAllocate ==
    /\ leased' = IF AllocateResult(leased) = PoolExhausted THEN leased
                 ELSE leased \cup {AllocateResult(leased)}
    /\ lastOp' = [op |-> "allocate", addr |-> AllocateResult(leased),
                  before |-> leased,
                  prev |-> IF lastOp.op = "release" /\ lastOp.addr \in lastOp.before
                           THEN lastOp.addr ELSE PoolExhausted]
    /\ UNCHANGED <<procVars, connVars>>

\* release(addr): an address that is not leased is tolerated.
PoolRelease ==
    /\ \E a \in Addresses :
        /\ leased' = leased \ {a}
        /\ lastOp' = [op |-> "release", addr |-> a, before |-> leased,
                      prev |-> PoolExhausted]
    /\ UNCHANGED <<procVars, connVars>>

PoolNext ==
    \/ PoolAllocate
    \/ PoolRelease

NoOp == [op |-> "none", addr |-> PoolExhausted, before |-> {},
         prev |-> PoolExhausted]

\* AddressPool::new: the gateway address is leased.
PoolInit ==
    /\ leased = {GatewayAddress}
    /\ lastOp = NoOp

\* One AddressPool of a running server.
PoolSpecInit == ProcInit /\ binary = "server" /\ ConnInit /\ PoolInit

PoolSpec == PoolSpecInit /\ [][PoolNext]_vars

Init == ProcInit /\ ConnInit /\ PoolInit

Next ==
    \/ ServerNext
    \/ ClientNext
    \/ MainExit

Spec == Init /\ [][Next]_vars

\* The tokio runtime polls every task that is ready: the supervisor loop
\* takes its next step, a ready try_join! completes, main returns.
Fairness ==
    /\ WF_vars(ServerLoadConfig) /\ WF_vars(ServerNew) /\ WF_vars(RunStartup)
    /\ WF_vars(Visit) /\ WF_vars(StopTunnel) /\ WF_vars(StartTunnel)
    /\ WF_vars(Sleep)
    /\ WF_vars(RelaySpawn) /\ WF_vars(RelayJoin)
    /\ WF_vars(MainExit)

FairSpec == Spec /\ Fairness

\* RumbleClient::run up to the spawn of the pumps, then the inbound pump.
ClientInboundNext ==
    \/ ClientLoadConfig
    \/ ConnectToServer
    \/ AuthClientNew
    \/ Authenticate
    \/ SetUpInterface
    \/ RelaySpawn
    \/ InRead
    \/ InReadError
    \/ InWrite

\* The two inbound relays: the inbound task of a server's connection, or
\* the inbound pump of a client.
RelayNext ==
    \/ binary = "server" /\ ConnNext
    \/ binary = "client" /\ ClientInboundNext

RelaySpec == Init /\ [][RelayNext]_vars

\* One RumbleConnection of a running server, under any sequence of calls.
ConnSpecInit == ProcInit /\ binary = "server" /\ ConnInit /\ PoolInit

ConnSpec == ConnSpecInit /\ [][ConnNext]_vars

\* ================================================================ claims

\* C1: whenever the outbound or the inbound pump task has ended with an
\* error, relay_packets (and so run()) eventually returns, even if the other
\* pump task never ends.
C1_PumpFailureTerminates ==
    (cliPc = "join" /\ (outPc = "err" \/ inPc = "err")) ~> (cliPc = "returned")

\* C2: in the supervisor loop a restart error does not make run() return:
\* once the startup loop is done, run() never returns.
C2_RestartErrorRetried ==
    startupDone => (srvPc # "returned" /\ result = "none")

\* C3: when run_server / run_client returned an error the process logs the
\* critical error and exits non-zero; exit code 0 only when it returned Ok.
C3_ErrorExitsNonZero ==
    mainPc = "exited" =>
        /\ result = "Err" => (logged /\ exitCode # 0)
        /\ exitCode = 0 => result = "Ok"

\* C4: every tunnel whose is_ok() is false after startup is eventually
\* restarted and is_ok() again, whatever happens to the other tunnels.
C4_RestartLiveness ==
    \A t \in Tunnels : (startupDone /\ ~TunnelIsOk(t)) ~> TunnelIsOk(t)

\* The stop()/start() calls the supervisor made on tunnel t in this pass.
RECURSIVE OpsOf(_, _)
OpsOf(log, t) ==
    IF log = <<>> THEN <<>>
    ELSE IF Head(log)[2] = t THEN <<Head(log)[1]>> \o OpsOf(Tail(log), t)
    ELSE OpsOf(Tail(log), t)

\* C5: in every pass, a tunnel that is not ok when visited gets stop() and
\* then start(), in that order and once each; start() is called only
\* directly after the stop() of the same tunnel of the same pass.
C5_StopThenStart ==
    /\ \A t \in Tunnels :
        visited[t] = "notok" =>
            OpsOf(passLog, t) =
                IF srvIdx = t /\ srvPc = "stop" THEN <<>>
                ELSE IF srvIdx = t /\ srvPc = "start" THEN <<"stop">>
                ELSE <<"stop", "start">>
    /\ \A i \in 1..Len(passLog) :
        passLog[i][1] = "start" =>
            i > 1 /\ passLog[i - 1] = <<"stop", passLog[i][2]>>

\* C5 witness: a pass ended in which one tunnel was restarted (stop, then
\* start) and another one was found ok.
C5_Witness ==
    /\ srvPc = "sleep"
    /\ \E t, u \in Tunnels :
        /\ visited[t] = "notok" /\ OpsOf(passLog, t) = <<"stop", "start">>
        /\ visited[u] = "ok"

\* C6: a send_datagram call that finds the auth state other than
\* Authenticated returns the not-authenticated error and hands nothing to
\* the QUIC connection.
C6_UnauthenticatedSendFails ==
    (lastSend.res # "none" /\ lastSend.atCheck # "Authenticated") =>
        (lastSend.res = "NotAuthenticated" /\ ~lastSend.handed)

\* C6 witness: a call found the state Authenticating (the auth task had been
\* aborted by stop()), failed, and nothing was handed over.
C6_Witness ==
    /\ lastSend.atCheck = "Authenticating"
    /\ lastSend.res = "NotAuthenticated"
    /\ quicHanded = <<>>

\* C7: data is pushed to the tunnel queue only by a task whose
\* handle_authentication returned Ok and whose last check saw Authenticated;
\* data is handed to QUIC only by a call whose check saw Authenticated.
C7_TransferOnlyWhenAuthenticated ==
    /\ tun_queue # <<>> => (lastPush.checked = "Authenticated" /\ lastPush.authOk)
    /\ lastSend.handed => lastSend.atCheck = "Authenticated"

\* C7 witness: data was pushed to the queue and data was handed to QUIC.
C7_Witness ==
    /\ Len(tun_queue) >= 1 /\ lastPush.authOk
    /\ Len(quicHanded) >= 1 /\ lastSend.handed

\* C8: a frame longer than the max datagram size the pump queried for it is
\* dropped (nothing is handed to the QUIC send, the pump goes on to the next
\* frame); a frame of at most that size, also of exactly that size, is
\* handed to the QUIC send once.
C8_OversizeDropped ==
    lastFrame.len # 0 =>
        IF lastFrame.len > lastFrame.mtu
        THEN lastFrame.handed = 0 /\ lastFrame.next = "query"
        ELSE lastFrame.handed = 1 /\ sent[Len(sent)] = lastFrame.len

\* C8 witness: an oversize frame was dropped and the next frame, of exactly
\* the max datagram size, was sent.
C8_Witness ==
    /\ lastFrame.after = "drop"
    /\ lastFrame.len = lastFrame.mtu
    /\ sent = <<lastFrame.len>>

\* C9: start() on a running connection returns an error and leaves the task
\* list as it was; otherwise it appends exactly one new inbound task and
\* returns Ok.
C9_StartFailsIfRunning ==
    lastStart.res # "none" =>
        /\ lastStart.kept
        /\ IF lastStart.running
           THEN lastStart.res = "Err" /\ lastStart.spawned = <<>>
           ELSE lastStart.res = "Ok" /\ lastStart.spawned = <<NewTask>>

\* C9 witness: start() was called on a running connection and failed.
C9_Witness ==
    lastStart.running /\ lastStart.res = "Err" /\ Len(tasks) >= 1

\* C10: is_ok() is true iff the task list holds a task and none has ended.
C10_IsOkIffAllRunning ==
    ConnIsOk <=> (Len(tasks) >= 1 /\ \A i \in 1..Len(tasks) : tasks[i].pc # "done")

\* C10 witness: the list holds an ended task next to a running one, and
\* is_ok() is false.
C10_Witness ==
    /\ ~ConnIsOk
    /\ \E i, j \in 1..Len(tasks) : tasks[i].pc = "done" /\ tasks[j].pc = "read"

\* C11: RumbleClient::run goes connect, authenticate, configure TUN, relay.
\* A TUN device exists only after authenticate() returned an address, and
\* it was set up with exactly that address; while there is no device no
\* pump runs and no datagram has been sent or read; a run that returned
\* without an address (authentication rejected or failed, or an earlier
\* step failed) returned an error, created no device and started no pump.
C11_RunOrder ==
    /\ tunAddress # 0 =>
        /\ assigned_address # 0
        /\ tunAddress = assigned_address
        /\ cliPc \in {"relay", "join", "returned"}
    /\ assigned_address # 0 =>
        cliPc \in {"set_up_interface", "relay", "join", "returned"}
    /\ (outPc # "idle" \/ inPc # "idle" \/ sent # <<>> \/ readLog # <<>>
            \/ framesRead # 0 \/ tunWritten # <<>>) =>
        tunAddress # 0 /\ cliPc \in {"join", "returned"}
    /\ (cliPc = "returned" /\ assigned_address = 0) =>
        /\ result = "Err"
        /\ tunAddress = 0
        /\ outPc = "idle" /\ inPc = "idle"

\* The device is up with the second address and both pumps have moved data.
C11_Witness ==
    /\ cliPc = "join"
    /\ assigned_address = 2 /\ tunAddress = 2
    /\ sent # <<>> /\ readLog # <<>>

\* C12: RumbleServer::new constructs every configured tunnel before any
\* tunnel is started.  Whenever a start() has been called (a tunnel has
\* tasks, run() is in or past its first loop, or run() returned from a
\* start()), every tunnel has been constructed; and when new() returned the
\* error of a failed construction, no tunnel has tasks, no start() or stop()
\* was called and the server returned that error.
C12_ConstructBeforeStart ==
    /\ (\/ \E t \in Tunnels : tunnelTasks[t] # <<>>
        \/ srvPc \in {"startup", "visit", "stop", "start", "sleep"}
        \/ errAt \in {"startup", "restart"}
        \/ startupDone
        \/ passLog # <<>>) =>
            active_tunnels = Tunnels
    /\ errAt = "new" =>
        /\ srvPc = "returned" /\ result = "Err"
        /\ active_tunnels # Tunnels
        /\ \A t \in Tunnels : tunnelTasks[t] = <<>>
        /\ ~startupDone /\ passLog = <<>>

\* The first tunnel was constructed, the construction of the second failed.
C12_Witness ==
    /\ errAt = "new"
    /\ active_tunnels = {1}
    /\ \A t \in Tunnels : tunnelTasks[t] = <<>>

\* C13: the only step that shortens the task list is stop(), and it leaves
\* the list empty with is_ok() false, whatever the tasks had done; a start()
\* on the empty list succeeds, spawns exactly one task and makes is_ok()
\* true; and while that task is the only one, is_ok() turns false only by
\* the task finishing.
C13_StopThenFreshStart ==
    [][ /\ Len(tasks') < Len(tasks) =>
            tasks' = <<>> /\ ~IsOk(Finished(tasks'))
        /\ (tasks = <<>> /\ tasks' # <<>>) =>
            /\ lastStart'.res = "Ok"
            /\ Len(tasks') = 1 /\ ~IsFinished(tasks'[1])
            /\ IsOk(Finished(tasks'))
        /\ (Len(tasks) = 1 /\ Len(tasks') = 1) =>
            (IsOk(Finished(tasks')) <=> ~IsFinished(tasks'[1]))
      ]_vars

\* An earlier task failed its authentication and was removed by stop();
\* the start() after it succeeded and its task has not finished.
C13_Witness ==
    /\ authState = "Failed"
    /\ Len(tasks) = 1 /\ tasks[1].pc = "auth_lock"
    /\ lastStart.res = "Ok" /\ lastStart.spawned = <<NewTask>>
    /\ ConnIsOk

\* C14: once the AuthServer's state is Authenticated, no step of the
\* connection (start, stop, a task's step, a handle_authentication run by a
\* later task, a send_datagram call) changes it.
C14_AuthenticatedIsStable ==
    [][authState = "Authenticated" => authState' = "Authenticated"]_vars

\* The first task authenticated the peer and ended; the task of a later
\* start() has run handle_authentication again on the same AuthServer.
C14_Witness ==
    /\ authState = "Authenticated"
    /\ Len(tasks) = 2
    /\ tasks[1].pc = "done"
    /\ tasks[2].pc = "check" /\ tasks[2].authOk

\* The hosts allocate() may hand out, given the leased set.
FreeHosts(ls) ==
    {a \in Addresses :
        a \notin ls
        /\ a \notin {NetworkAddress, BroadcastAddress, GatewayAddress}}

\* C15: allocation is lowest-free-first.  Every allocate() returned the
\* lowest address of the network that was not leased and is not the
\* network, broadcast or gateway address, and leased it; it returned
\* PoolExhausted exactly when there was no such address; and an allocate()
\* directly after the release of a leased address lower than every other
\* free address returned that address.
C15_LowestFreeFirst ==
    lastOp.op = "allocate" =>
        LET free == FreeHosts(lastOp.before) IN
        /\ (lastOp.addr = PoolExhausted) <=> (free = {})
        /\ free # {} =>
            /\ lastOp.addr \in free
            /\ \A f \in free : lastOp.addr <= f
            /\ leased = lastOp.before \cup {lastOp.addr}
        /\ free = {} => leased = lastOp.before
        /\ (lastOp.prev \in free /\ \A f \in free : lastOp.prev <= f) =>
            lastOp.addr = lastOp.prev

\* A lease between two other leases was released and allocated again while
\* a higher address was free.
C15_Witness ==
    /\ lastOp.op = "allocate"
    /\ lastOp.prev = 3 /\ lastOp.addr = 3
    /\ lastOp.before = {GatewayAddress, 2, 4}

\* C16: a frame handed to the QUIC send does not exceed the max datagram
\* size the connection has at the moment of the send, also when that size
\* changed while the pump was waiting for the frame.
C16_NeverSendsAboveCurrentMax ==
    lastFrame.handed = 1 => lastFrame.len <= lastFrame.cur

\* C17: an inbound task ends (with its error) when handle_authentication
\* did not leave the peer authenticated, when the state it reads at the top
\* of the loop is not Authenticated, when read_datagram fails, and when the
\* send into the tunnel queue fails; it goes on otherwise.  A task that has
\* ended stays in the list until stop() empties it, and as long as it is in
\* the list is_ok() is false, also after a start().
C17_ExitedTaskKeepsNotOk ==
    [][ /\ \A i \in 1..Len(tasks) :
            Len(tasks') >= Len(tasks) =>
            /\ (tasks[i].pc = "auth" /\ tasks'[i].pc # "auth") =>
                IF authState' = "Authenticated" /\ tasks'[i].authOk
                THEN tasks'[i].pc = "check"
                ELSE IsFinished(tasks'[i])
            /\ (tasks[i].pc = "check" /\ tasks'[i] # tasks[i]) =>
                IF authState = "Authenticated"
                THEN tasks'[i].pc = "read"
                ELSE IsFinished(tasks'[i])
            /\ (tasks[i].pc = "read" /\ tasks'[i] # tasks[i]) =>
                IF connRead' # connRead /\ queueOpen
                THEN tasks'[i].pc = "check" /\ tun_queue' # tun_queue
                ELSE IsFinished(tasks'[i]) /\ tun_queue' = tun_queue
            /\ IsFinished(tasks[i]) => IsFinished(tasks'[i])
        /\ Len(tasks') < Len(tasks) => tasks' = <<>>
        /\ (\E i \in 1..Len(tasks') : IsFinished(tasks'[i])) =>
            ~IsOk(Finished(tasks'))
      ]_vars

\* The task ended on a failed queue send; start() was called without a
\* stop() and spawned a second task, and is_ok() is still false.
C17_Witness ==
    /\ ~queueOpen /\ connRead # <<>> /\ tun_queue = <<>>
    /\ Len(tasks) = 2
    /\ IsFinished(tasks[1]) /\ ~IsFinished(tasks[2])
    /\ lastStart.res = "Ok"
    /\ ~ConnIsOk

\* C18: the inbound relays lose, reorder and alter nothing.  Server: every
\* datagram a task reads is pushed to the tunnel queue in the same step, as
\* it was read and behind everything pushed before, or the task ends on it;
\* nothing else changes the queue, so the queue holds the datagrams read, in
\* order, and all of them while the receiver is alive.  Client: the pump
\* reads the next datagram only when every earlier one has been written, and
\* writes exactly the datagram it read last, so what was written to the TUN
\* device is what was read, in order, but for the datagram being written or
\* the one the pump ended on.
C18_InboundRelaysKeepOrder ==
    [][ /\ connRead' # connRead =>
            \E d \in Data :
                /\ connRead' = Append(connRead, d)
                /\ \/ tun_queue' = Append(tun_queue, d)
                   \/ /\ tun_queue' = tun_queue
                      /\ \E i \in 1..Len(tasks) :
                            ~IsFinished(tasks[i]) /\ IsFinished(tasks'[i])
        /\ connRead' = connRead => tun_queue' = tun_queue
        /\ tun_queue' = SubSeq(connRead', 1, Len(tun_queue'))
        /\ queueOpen' => tun_queue' = connRead'
        /\ readLog' # readLog =>
            /\ tunWritten = readLog
            /\ tunWritten' = tunWritten
            /\ \E d \in Data : readLog' = Append(readLog, d)
        /\ tunWritten' # tunWritten =>
            /\ readLog' = readLog
            /\ tunWritten' = readLog
        /\ tunWritten' = SubSeq(readLog', 1, Len(tunWritten'))
        /\ Len(readLog') <= Len(tunWritten') + 1
        /\ Len(readLog') = Len(tunWritten') + 1 => inPc' \in {"write", "err"}
      ]_vars

\* A connection's task pushed the first datagram and ended on the second,
\* which the closed queue did not take.
C18_Witness ==
    /\ connRead = <<2, 1>> /\ tun_queue = <<2>>
    /\ ~queueOpen
    /\ \E i \in 1..Len(tasks) : IsFinished(tasks[i])

\* C19: at most one inbound task of a connection has not ended, at any
\* instant: start() spawns none while an earlier task is running.
C19_AtMostOneRunningTask ==
    Cardinality({i \in 1..Len(tasks) : ~IsFinished(tasks[i])}) <= 1

\* C20: a send_datagram call completes only while no task holds the write
\* lock; a call issued while handle_authentication was running completes
\* after it has finished, reads the state it left (Authenticated or Failed,
\* never Unauthenticated or Authenticating), and hands the data to the QUIC
\* connection exactly when that state is Authenticated.
C20_SendWaitsForAuth ==
    [][ (sendPending # 0 /\ sendPending' = 0) =>
            /\ lockWriter = 0
            /\ sendAtCall = "in_auth" =>
                /\ authState \in {"Authenticated", "Failed"}
                /\ lastSend'.atCall = "in_auth"
                /\ lastSend'.atCheck = authState
                /\ (quicHanded' # quicHanded) <=> (authState = "Authenticated")
                /\ (lastSend'.res = "NotAuthenticated") <=>
                        (authState = "Failed")
      ]_vars

\* A send issued during the authentication completed after the peer was
\* accepted and its data was handed to the QUIC connection.
C20_Witness ==
    /\ lastSend.atCall = "in_auth"
    /\ lastSend.atCheck = "Authenticated"
    /\ lastSend.handed /\ lastSend.res = "Ok"
    /\ quicHanded # <<>>

\* C21: the supervisor leaves healthy tunnels untouched.  A tunnel found ok
\* when visited has no stop() and no start() in that pass; after the startup
\* a tunnel's task list changes only by one of its tasks ending or by a
\* stop() or start() the supervisor calls on that tunnel, which it does only
\* for a tunnel it found not ok in this pass; and such a start() is the
\* call directly after the stop() of the same tunnel.
C21_HealthyTunnelsUntouched ==
    [][ /\ \A t \in Tunnels :
            visited'[t] = "ok" => OpsOf(passLog', t) = <<>>
        /\ startupDone =>
            \A t \in Tunnels :
                tunnelTasks'[t] # tunnelTasks[t] =>
                    \/ /\ Len(tunnelTasks'[t]) = Len(tunnelTasks[t])
                       /\ passLog' = passLog /\ srvPc' = srvPc
                       /\ \A u \in Tunnels \ {t} :
                            tunnelTasks'[u] = tunnelTasks[u]
                    \/ /\ srvIdx = t /\ visited[t] = "notok"
                       /\ \/ srvPc = "stop"
                             /\ passLog' = Append(passLog, <<"stop", t>>)
                          \/ srvPc = "start"
                             /\ passLog # <<>>
                             /\ passLog[Len(passLog)] = <<"stop", t>>
                             /\ passLog' = Append(passLog, <<"start", t>>)
        /\ (startupDone /\ passLog' # passLog /\ passLog' # <<>>) =>
            /\ visited[passLog'[Len(passLog')][2]] = "notok"
            /\ passLog'[Len(passLog')][1] = "start" =>
                /\ passLog # <<>>
                /\ passLog[Len(passLog)] =
                        <<"stop", passLog'[Len(passLog')][2]>>
      ]_vars

\* A pass ended in which the second tunnel was found ok and still holds the
\* tasks of its startup, while the first one was stopped and started.
C21_Witness ==
    /\ srvPc = "sleep"
    /\ visited[1] = "notok" /\ visited[2] = "ok"
    /\ passLog = << <<"stop", 1>>, <<"start", 1>> >>
    /\ tunnelTasks[2] = [i \in 1..TunnelTaskCount |-> FALSE]

====
